---------------------------- MODULE Spec2Model ----------------------------
(***************************************************************************)
(* svelte-http-client: the Promisable store (a svelte Readable that wraps  *)
(* a Promise) and the operations that derive and observe it.               *)
(*                                                                         *)
(* The model follows the JavaScript run to completion discipline: every    *)
(* action is one synchronous call (fetch$, then$, catch$, finally$,        *)
(* startWith$, subscribe, the returned unsubscribe), the settlement of the *)
(* network call, or one job taken from the head of the microtask queue.    *)
(***************************************************************************)
EXTENDS Integers, Sequences, FiniteSets, TLC

\* ------------------------------------------------------------------ bounds
\* Spec: every operation, on at most MaxPromisables Promisables made from one
\* fetch$ call and observed by at most MaxObservers subscribe calls.
MaxPromisables == 2
MaxObservers == 1
\* SpecChain: then$ / catch$ / finally$ chains of at most MaxChain Promisables.
MaxChain == 4
\* SpecObservers: at most MaxSubscribers subscribe calls on at most MaxObserved
\* Promisables made by then$ and startWith$.
MaxObserved == 2
MaxSubscribers == 2
\* SpecCompose: at most MaxComposed Promisables made by then$.
MaxComposed == 4
\* SpecFailures: at most MaxLinked Promisables, the three getJson$ makes and
\* those the caller derives from the one it returned.
MaxLinked == 5
MaxEager == 2
MaxWatchers == 2
MaxPlaced == 4
MaxViewers == 1

\* --------------------------------------------------------------- responses
\* The Response objects fetch can resolve with.  "obj" is 200 with a JSON
\* body; the others differ in ok, in the content-type header and in whether
\* the body is well-formed JSON.
Responses == {"obj", "okText", "r500text", "r404json", "r502bad", "r500none"}

\* response.ok
ResponseOk(r) == r \in {"obj", "okText"}

\* response.status
Status(r) ==
    CASE r \in {"obj", "okText"} -> "200"
      [] r \in {"r500text", "r500none"} -> "500"
      [] r = "r404json" -> "404"
      [] r = "r502bad" -> "502"

\* response.statusText
StatusText(r) ==
    CASE r \in {"obj", "okText"} -> "OK"
      [] r \in {"r500text", "r500none"} -> "Internal Server Error"
      [] r = "r404json" -> "Not Found"
      [] r = "r502bad" -> "Bad Gateway"

\* response.headers.get('content-type'): null when the header is absent
ContentType(r) ==
    CASE r = "obj" -> "application/json"
      [] r = "r404json" -> "application/json; charset=utf-8"
      [] r = "r502bad" -> "application/json"
      [] r \in {"okText", "r500text"} -> "text/plain"
      [] r = "r500none" -> "null"

\* the bytes of the body, as text
BodyText(r) ==
    CASE r = "obj" -> "[1]"
      [] r = "r404json" -> "{}"
      [] r = "r502bad" -> "<html>"
      [] r = "okText" -> "hello"
      [] r = "r500text" -> "boom"
      [] r = "r500none" -> ""

\* headers.get('content-type')?.includes('application/json')
IncludesJson(ct) ==
    ct \in {"application/json", "application/json; charset=utf-8"}

Returns(v) == [ok |-> TRUE, value |-> v]
Throws(c) == [ok |-> FALSE, value |-> c]

\* JSON.parse, as response.json() applies it to the body: the value the text
\* denotes, or a SyntaxError
JSONparse(text) ==
    CASE text = "[1]" -> Returns("Array(1)")
      [] text = "{}" -> Returns("Object()")
      [] OTHER -> Throws("SyntaxError")

\* the JavaScript string with the given characters
String(text) == "'" \o text \o "'"

\* response.json() / response.text() on a body that was not read before
Decode(how, r) ==
    IF how = "json" THEN JSONparse(BodyText(r)) ELSE Returns(String(BodyText(r)))

\* new HttpError(status, statusText, body)
HttpError(status, statusText, body) ==
    "HttpError(" \o status \o "," \o statusText \o "," \o body \o ")"

\* ------------------------------------------------------------------ values
\* JavaScript values that flow through a chain: the primitives undefined and
\* NaN, an object (the Response), and two Error objects.
Val == {"undefined", "NaN", "obj", "TypeError", "boom"}

\* typeof v === 'object' (and v is not null)
IsObject(v) ==
    v \notin {"undefined", "NaN"} \cup {String(BodyText(r)) : r \in Responses}

\* a !== b of JavaScript: NaN differs from itself
StrictNotEqual(a, b) == a # b \/ a = "NaN"

\* svelte/internal safe_not_equal, the test svelte's set() makes before it
\* notifies:  a != a ? b == b : a !== b || (a && typeof a === 'object') || ...
\* (variant: every set() counts as a change)
safe_not_equal_always(a, b) == TRUE
safe_not_equal(a, b) ==
    IF a = "NaN" THEN b # "NaN" ELSE StrictNotEqual(a, b) \/ IsObject(a)

\* ---------------------------------------------------------------- handlers
\* Caller supplied callbacks: "void" returns undefined, "throw" throws a
\* new Error.
Handlers == {"void", "throw"}

\* fetchResponseHandler(response): what its promise settles with
\* (variant: the body of a failed response is always read as text)
fetchResponseHandler_text(response) ==
    IF response \notin Responses
    THEN Throws("TypeError(not a Response)")
    ELSE IF ResponseOk(response)
         THEN Returns(response)
         ELSE Throws(HttpError(Status(response), StatusText(response),
                               Decode("text", response).value))

fetchResponseHandler(response) ==
    IF response \notin Responses
    THEN Throws("TypeError(not a Response)")
    ELSE IF ResponseOk(response)
         THEN Returns(response)
         ELSE LET body == Decode(IF IncludesJson(ContentType(response))
                                 THEN "json" ELSE "text", response)
              IN  IF body.ok
                  THEN Throws(HttpError(Status(response),
                                        StatusText(response), body.value))
                  ELSE Throws(body.value)

\* jsonUnwrapper(response): what its promise settles with
jsonUnwrapper(response) ==
    IF response \notin Responses
    THEN Throws("TypeError(not a Response)")
    ELSE Decode("json", response)

\* The handlers of the library are async functions: their outcome reaches
\* the derived promise through a thenable, two microtasks later.
Async(h) == h \in {"fetchResponseHandler", "jsonUnwrapper"}

\* The named handlers: those of the caller ("same" returns its argument),
\* and those of the library.
Plain == {"void", "throw", "same", "fetchResponseHandler", "jsonUnwrapper"}

ApplyPlain(h, x) ==
    CASE h = "void" -> Returns("undefined")
      [] h = "throw" -> Throws("boom")
      [] h = "same" -> Returns(x)
      [] h = "fetchResponseHandler" -> fetchResponseHandler(x)
      [] h = "jsonUnwrapper" -> jsonUnwrapper(x)

\* (variant: the classifier reads the body of every response, ok or not)
ReadsPlain_every_response(h, x) ==
    CASE h = "fetchResponseHandler" /\ x \in Responses ->
            IF IncludesJson(ContentType(x)) THEN "json" ELSE "text"
      [] h = "jsonUnwrapper" /\ x \in Responses -> "json"
      [] OTHER -> "none"

ReadsPlain(h, x) ==
    CASE h = "fetchResponseHandler" /\ x \in Responses /\ ~ResponseOk(x) ->
            IF IncludesJson(ContentType(x)) THEN "json" ELSE "text"
      [] h = "jsonUnwrapper" /\ x \in Responses -> "json"
      [] OTHER -> "none"

\* The handler x => b(a(x)) a caller writes from two named handlers.
Compose(a, b) == "x => " \o b \o "(" \o a \o "(x))"

\* the composed handlers, by their parts
Composites == [p \in Plain \X Plain |-> Compose(p[1], p[2])]

First(h) == (CHOOSE p \in DOMAIN Composites : Composites[p] = h)[1]

Second(h) == (CHOOSE p \in DOMAIN Composites : Composites[p] = h)[2]

\* What a(x) evaluates to inside x => b(a(x)): what a returns or throws,
\* and for an async a the promise it returns at once.
Inner(a, x) == IF Async(a) THEN Returns("Promise") ELSE ApplyPlain(a, x)

\* What x => b(a(x)) returns or throws, the promise of a among the values.
Composed(h, x) ==
    IF Inner(First(h), x).ok
    THEN ApplyPlain(Second(h), Inner(First(h), x).value)
    ELSE Inner(First(h), x)

\* What the promise derived with handler h takes when h is called with x.
Apply(h, x) ==
    IF h \in Plain
    THEN ApplyPlain(h, x)
    ELSE IF Composed(h, x).ok /\ Composed(h, x).value = "Promise"
         THEN ApplyPlain(First(h), x)
         ELSE Composed(h, x)

\* How many microtasks later: two when the handler returned a promise.
Ticks(h, x) ==
    IF h \in Plain
    THEN IF Async(h) THEN 2 ELSE 0
    ELSE IF /\ Inner(First(h), x).ok
            /\ \/ Async(Second(h))
               \/ Composed(h, x).value = "Promise"
         THEN 2
         ELSE 0

\* The body read handler h starts when it is called with x
Reads(h, x) ==
    IF h \in Plain
    THEN ReadsPlain(h, x)
    ELSE IF Async(First(h))
         THEN ReadsPlain(First(h), x)
         ELSE IF Inner(First(h), x).ok
              THEN ReadsPlain(Second(h), Inner(First(h), x).value)
              ELSE "none"

\* Whether the outcome of h waits for that read: not when x => b(a(x))
\* drops the promise of an async a.
Awaited(h, x) ==
    h \in Plain \/ ~Async(First(h)) \/ Second(h) = "same"

\* the handlers given to then$ where chains and composed handlers are compared
ComposeHandlers == {"same", "throw", "fetchResponseHandler", "jsonUnwrapper"}

\* placeholders given to startWith$
StartVals == {"NaN", "obj"}

\* ----------------------------------------------------------------- requests
\* RequestInit bags.  NoInit is {}, the default of every init parameter.
NoInit == [k \in {} |-> "undefined"]

\* what callers pass as init
PerCall ==
    {NoInit,
     [method |-> "TRACE", body |-> "'raw'", mode |-> "cors"],
     [headers |-> [y |-> "2"]],
     [headers |-> [x |-> "2"]]}

\* what clients are constructed with as init
Defaults ==
    {NoInit,
     [headers |-> [x |-> "1"]],
     [method |-> "HEAD", mode |-> "same-origin"]}

\* { ...a, ...b }: the keys of both, b's value where both have the key
\* (variant: a's value where both have the key)
Spread_first(a, b) == a @@ b

Spread(a, b) == b @@ a

\* body arguments: omitted, or an array
Bodies == {"undefined", "Array(1)"}

\* body: any = null, the default of the body parameter
OrNull(body) == IF body = "undefined" THEN "null" ELSE body

\* JSON.stringify(body): the text that denotes the value
JSONstringify(body) ==
    String(CASE body = "null" -> "null"
             [] body = "Array(1)" -> "[1]"
             [] body = "Object()" -> "{}")

\* endpoints: relative, rooted, absolute
Endpoints == {"posts", "/posts", "https://other.example/posts"}

\* base addresses of clients: none, a directory, a file in a directory
Bases == {"undefined", "https://api.example.com/", "https://api.example.com/v1/x"}

IsAbsolute(endpoint) == endpoint = "https://other.example/posts"

IsRooted(endpoint) == endpoint = "/posts"

\* the origin of a base address, and its path up to the last slash
OriginOf(base) == "https://api.example.com"

DirOf(base) ==
    CASE base = "https://api.example.com/" -> "/"
      [] base = "https://api.example.com/v1/x" -> "/v1/"

\* new URL(endpoint, base) throws a TypeError when endpoint is not absolute
\* and there is no base
URLthrows(endpoint, base) == ~IsAbsolute(endpoint) /\ base = "undefined"

\* new URL(endpoint, base).href
URL(endpoint, base) ==
    CASE IsAbsolute(endpoint) -> endpoint
      [] IsRooted(endpoint) -> OriginOf(base) \o endpoint
      [] OTHER -> OriginOf(base) \o DirOf(base) \o endpoint

VARIABLES
    promises,     \* the Promise objects: state, value, registered reactions
    jobs,         \* the microtask queue
    promisables,  \* the Promisable objects: _initialValue and _promise
    observers,    \* one svelte readable per subscribe call, with its subscriber
    fetchCalls,   \* number of calls of the global fetch
    origin,       \* history: the call that made each Promisable
    requests,     \* history: what the global fetch was called with, and by whom
    reads,        \* the reads of Response bodies: started, and finished or not
    clients       \* the SvelteHttpClient objects: _baseUrl and _init

vars == <<promises, jobs, promisables, observers, fetchCalls, origin,
          requests, reads, clients>>

\* ---------------------------------------------------------------- promises
\* A Promise of the host.  kind/handler/parent record how it was made: by
\* fetch (kind "fetch", parent 0) or by _promise.then / .catch / .finally of
\* the parent with the caller's handler.  calls is the list of arguments the
\* handler has been invoked with.
NewPromise(kind, handler, parent) ==
    [state |-> "pending", value |-> "undefined", kind |-> kind,
     handler |-> handler, parent |-> parent, reactions |-> <<>>,
     calls |-> <<>>]

Job(kind, target, state, value, ticks) ==
    [kind |-> kind, target |-> target, state |-> state, value |-> value,
     ticks |-> ticks]

\* promise.then(...) on promise src: the reaction waits while src is pending
\* and is queued as a microtask at once when src is already settled.
\* (variant: the newest reaction is put in front of the older ones)
RegisterPromises_newest_first(ps, src, r) ==
    IF ps[src].state = "pending"
    THEN [ps EXCEPT ![src].reactions = <<r>> \o @]
    ELSE ps

RegisterPromises(ps, src, r) ==
    IF ps[src].state = "pending"
    THEN [ps EXCEPT ![src].reactions = Append(@, r)]
    ELSE ps

\* (variant: a reaction registered on a settled promise is never queued)
RegisterJobs_pending_only(ps, js, src, r) == js

RegisterJobs(ps, js, src, r) ==
    IF ps[src].state = "pending"
    THEN js
    ELSE Append(js, Job(r.kind, r.target, ps[src].state, ps[src].value, 0))

\* Settling promise i queues its reactions, in registration order.
SettlePromises(ps, i, st, v) ==
    [ps EXCEPT ![i].state = st, ![i].value = v, ![i].reactions = <<>>]

SettleJobs(ps, js, i, st, v) ==
    js \o [k \in 1..Len(ps[i].reactions) |->
             Job(ps[i].reactions[k].kind, ps[i].reactions[k].target, st, v, 0)]

\* What a reaction does with the outcome (state, value) of its source:
\* called - whether the caller's handler runs, arg - what it is given,
\* state/value - the outcome of the derived promise, ticks - how many more
\* microtasks pass before the derived promise takes that outcome.
Reaction(called, arg, state, value, ticks) ==
    [called |-> called, arg |-> arg, state |-> state, value |-> value,
     ticks |-> ticks]

Outcome(called, arg, out, ticks) ==
    Reaction(called, arg, IF out.ok THEN "fulfilled" ELSE "rejected",
             out.value, ticks)

\* _promise.then(onfulfilled)
\* (variant: onfulfilled is given rejections too)
ThenReaction_on_any(h, state, value) ==
    Outcome(TRUE, value, Apply(h, value), Ticks(h, value))

ThenReaction(h, state, value) ==
    IF state = "fulfilled"
    THEN Outcome(TRUE, value, Apply(h, value), Ticks(h, value))
    ELSE Reaction(FALSE, value, state, value, 0)

\* _promise.catch(onrejected)
\* (variant: onrejected is called without the cause)
CatchReaction_no_cause(h, state, value) ==
    IF state = "rejected"
    THEN Outcome(TRUE, "undefined", Apply(h, "undefined"), 0)
    ELSE Reaction(FALSE, value, state, value, 0)

\* (variant: onrejected is given fulfilments too)
CatchReaction_on_any(h, state, value) ==
    Outcome(TRUE, value, Apply(h, value), 0)

CatchReaction(h, state, value) ==
    IF state = "rejected"
    THEN Outcome(TRUE, value, Apply(h, value), 0)
    ELSE Reaction(FALSE, value, state, value, 0)

\* _promise.finally(onfinally): onfinally is called without arguments; when
\* it throws the derived promise is rejected with what it threw, otherwise
\* the derived promise is resolved with PromiseResolve(result).then(thunk),
\* a thenable, and takes the source's outcome two microtasks later.
\* (variant: onfinally runs on fulfilment only)
FinallyReaction_on_success(h, state, value) ==
    IF state = "rejected"
    THEN Reaction(FALSE, "undefined", state, value, 0)
    ELSE IF Apply(h, "undefined").ok
         THEN Reaction(TRUE, "undefined", state, value, 2)
         ELSE Outcome(TRUE, "undefined", Apply(h, "undefined"), 0)

\* (variant: the derived promise takes onfinally's own outcome)
FinallyReaction_swallows(h, state, value) ==
    Outcome(TRUE, "undefined", Apply(h, "undefined"), 0)

FinallyReaction(h, state, value) ==
    IF Apply(h, "undefined").ok
    THEN Reaction(TRUE, "undefined", state, value, 2)
    ELSE Outcome(TRUE, "undefined", Apply(h, "undefined"), 0)

React(kind, h, state, value) ==
    CASE kind = "then" -> ThenReaction(h, state, value)
      [] kind = "catch" -> CatchReaction(h, state, value)
      [] kind = "finally" -> FinallyReaction(h, state, value)

\* ------------------------------------------------------------- promisable
\* promisable(initialValue, promise)
promisable(initialValue, promise) ==
    [initialValue |-> initialValue, promise |-> promise]

Init ==
    /\ promises = <<>>
    /\ jobs = <<>>
    /\ promisables = <<>>
    /\ observers = <<>>
    /\ fetchCalls = 0
    /\ origin = <<>>
    /\ requests = <<>>
    /\ reads = <<>>
    /\ clients = <<>>

\* the call that made a Promisable: the method, its receiver, its argument
Call(by, from, arg) == [by |-> by, from |-> from, arg |-> arg]

\* What the caller asked for: the verb, its Json and $ variant, the endpoint,
\* body and init arguments, and the client it was called on (0: none).
Asked(verb, json, dollar, endpoint, body, init, client) ==
    [verb |-> verb, json |-> json, dollar |-> dollar, endpoint |-> endpoint,
     body |-> body, init |-> init, client |-> client]

\* A call of the global fetch: what was asked, the two arguments fetch was
\* given, the promise handed back to the caller, the clients at that time.
Request(asked, input, init, result, cs) ==
    [asked |-> asked, input |-> input, init |-> init, result |-> result,
     clients |-> cs]

\* fetch$(input, init): promisable(undefined, fetch(input, init))
fetch_ ==
    /\ promises = <<>>
    /\ promises' = Append(promises, NewPromise("fetch", "none", 0))
    /\ promisables' = Append(promisables,
                             promisable("undefined", Len(promises) + 1))
    /\ fetchCalls' = fetchCalls + 1
    /\ origin' = Append(origin, Call("fetch", 0, "none"))
    /\ requests' = Append(requests,
                          Request(Asked("fetch", FALSE, TRUE, "posts",
                                        "undefined", NoInit, 0),
                                  "posts", NoInit, Len(promises) + 1, clients))
    /\ UNCHANGED <<jobs, observers, reads, clients>>

\* The three deriving methods: promisable(_initialValue, _promise.X(handler))
\* (variant: the receiver is redirected to the derived promise)
Derive_in_place(f, kind, h) ==
    LET src == promisables[f].promise
        d == Len(promises) + 1
        ps == Append(promises, NewPromise(kind, h, src))
        r == [kind |-> kind, target |-> d]
    IN  /\ promises' = RegisterPromises(ps, src, r)
        /\ jobs' = RegisterJobs(ps, jobs, src, r)
        /\ promisables' = Append([promisables EXCEPT ![f].promise = d],
                                 promisable(promisables[f].initialValue, d))
        /\ origin' = Append(origin, Call(kind, f, h))
        /\ UNCHANGED <<observers, fetchCalls, requests, reads, clients>>

\* (variant: the derived Promisable starts from undefined again)
Derive_forgets(f, kind, h) ==
    LET src == promisables[f].promise
        d == Len(promises) + 1
        ps == Append(promises, NewPromise(kind, h, src))
        r == [kind |-> kind, target |-> d]
    IN  /\ promises' = RegisterPromises(ps, src, r)
        /\ jobs' = RegisterJobs(ps, jobs, src, r)
        /\ promisables' = Append(promisables, promisable("undefined", d))
        /\ origin' = Append(origin, Call(kind, f, h))
        /\ UNCHANGED <<observers, fetchCalls, requests, reads, clients>>

Derive(f, kind, h) ==
    LET src == promisables[f].promise
        d == Len(promises) + 1
        ps == Append(promises, NewPromise(kind, h, src))
        r == [kind |-> kind, target |-> d]
    IN  /\ promises' = RegisterPromises(ps, src, r)
        /\ jobs' = RegisterJobs(ps, jobs, src, r)
        /\ promisables' = Append(promisables,
                                 promisable(promisables[f].initialValue, d))
        /\ origin' = Append(origin, Call(kind, f, h))
        /\ UNCHANGED <<observers, fetchCalls, requests, reads, clients>>

then_(f, onfulfilled) == Derive(f, "then", onfulfilled)

catch_(f, onrejected) == Derive(f, "catch", onrejected)

finally_(f, onfinally) == Derive(f, "finally", onfinally)

\* startWith$(initialValue): promisable(initialValue, _promise)
\* (variant: startWith$ issues the request again)
startWith_again(f, initialValue) ==
    /\ promises' = Append(promises, NewPromise("fetch", "none", 0))
    /\ promisables' = Append(promisables,
                             promisable(initialValue, Len(promises) + 1))
    /\ fetchCalls' = fetchCalls + 1
    /\ origin' = Append(origin, Call("startWith", f, initialValue))
    /\ UNCHANGED <<jobs, observers, requests, reads, clients>>

\* (variant: startWith$ keeps the receiver's placeholder)
startWith_same(f, initialValue) ==
    /\ promisables' = Append(promisables,
                             promisable(promisables[f].initialValue,
                                        promisables[f].promise))
    /\ origin' = Append(origin, Call("startWith", f, initialValue))
    /\ UNCHANGED <<promises, jobs, observers, fetchCalls,
                 requests, reads, clients>>

startWith_(f, initialValue) ==
    /\ promisables' = Append(promisables,
                             promisable(initialValue, promisables[f].promise))
    /\ origin' = Append(origin, Call("startWith", f, initialValue))
    /\ UNCHANGED <<promises, jobs, observers, fetchCalls,
                 requests, reads, clients>>

\* ---------------------------------------------------------------- the verbs
\* fetch(input, init).then(fetchResponseHandler), and .then(jsonUnwrapper)
\* after it in the Json variant; the $ variant makes the same promises
\* through fetch$ and then$, each wrapped in a Promisable.
\* (variant: the Json functions that return a Promisable do not decode)
Issue_undecoded(asked, input, init) ==
    LET n == Len(promises)
        m == Len(promisables)
        links == IF asked.json
                 THEN <<"fetchResponseHandler",
                        IF asked.dollar THEN "same" ELSE "jsonUnwrapper">>
                 ELSE <<"fetchResponseHandler">>
        len == Len(links) + 1
        made == [k \in 1..len |->
                   IF k = 1
                   THEN NewPromise("fetch", "none", 0)
                   ELSE NewPromise("then", links[k - 1], n + k - 1)]
        chained == [k \in 1..len |->
                      IF k < len
                      THEN [made[k] EXCEPT !.reactions =
                               <<[kind |-> "then", target |-> n + k + 1]>>]
                      ELSE made[k]]
    IN  /\ promises' = promises \o chained
        /\ promisables' =
              IF asked.dollar
              THEN promisables \o
                   [k \in 1..len |-> promisable("undefined", n + k)]
              ELSE promisables
        /\ origin' =
              IF asked.dollar
              THEN origin \o
                   [k \in 1..len |->
                      IF k = 1
                      THEN Call("fetch", 0, "none")
                      ELSE Call("then", m + k - 1, links[k - 1])]
              ELSE origin
        /\ fetchCalls' = fetchCalls + 1
        /\ requests' = Append(requests,
                              Request(asked, input, init, n + len, clients))
        /\ UNCHANGED <<jobs, observers, reads, clients>>

Issue(asked, input, init) ==
    LET n == Len(promises)
        m == Len(promisables)
        links == IF asked.json
                 THEN <<"fetchResponseHandler", "jsonUnwrapper">>
                 ELSE <<"fetchResponseHandler">>
        len == Len(links) + 1
        made == [k \in 1..len |->
                   IF k = 1
                   THEN NewPromise("fetch", "none", 0)
                   ELSE NewPromise("then", links[k - 1], n + k - 1)]
        chained == [k \in 1..len |->
                      IF k < len
                      THEN [made[k] EXCEPT !.reactions =
                               <<[kind |-> "then", target |-> n + k + 1]>>]
                      ELSE made[k]]
    IN  /\ promises' = promises \o chained
        /\ promisables' =
              IF asked.dollar
              THEN promisables \o
                   [k \in 1..len |-> promisable("undefined", n + k)]
              ELSE promisables
        /\ origin' =
              IF asked.dollar
              THEN origin \o
                   [k \in 1..len |->
                      IF k = 1
                      THEN Call("fetch", 0, "none")
                      ELSE Call("then", m + k - 1, links[k - 1])]
              ELSE origin
        /\ fetchCalls' = fetchCalls + 1
        /\ requests' = Append(requests,
                              Request(asked, input, init, n + len, clients))
        /\ UNCHANGED <<jobs, observers, reads, clients>>

\* get$ / getJson$ / get / getJson:  { ...init, method: 'GET' }
get_(asked, endpoint, init) ==
    Issue(asked, endpoint, Spread(init, [method |-> "GET"]))

\* post$ / postJson$ / post / postJson:
\* { ...init, method: 'POST', body: JSON.stringify(body) }
post_(asked, endpoint, body, init) ==
    Issue(asked, endpoint,
          Spread(init, [method |-> "POST",
                        body |-> JSONstringify(OrNull(body))]))

\* put$ / putJson$ / put / putJson
put_(asked, endpoint, body, init) ==
    Issue(asked, endpoint,
          Spread(init, [method |-> "PUT",
                        body |-> JSONstringify(OrNull(body))]))

\* patch$ / patchJson$ / patch / patchJson
patch_(asked, endpoint, body, init) ==
    Issue(asked, endpoint,
          Spread(init, [method |-> "PATCH",
                        body |-> JSONstringify(OrNull(body))]))

\* del$ / delJson$ / del / delJson:  { ...init, method: 'DELETE' }
del_(asked, endpoint, init) ==
    Issue(asked, endpoint, Spread(init, [method |-> "DELETE"]))

\* the free function of the given name
Verbs == {"get", "post", "put", "patch", "del"}

verb_(asked, endpoint, body, init) ==
    CASE asked.verb = "get" -> get_(asked, endpoint, init)
      [] asked.verb = "post" -> post_(asked, endpoint, body, init)
      [] asked.verb = "put" -> put_(asked, endpoint, body, init)
      [] asked.verb = "patch" -> patch_(asked, endpoint, body, init)
      [] asked.verb = "del" -> del_(asked, endpoint, init)

\* the body argument a verb has: get and del have none
BodiesOf(verb) == IF verb \in {"get", "del"} THEN {"undefined"} ELSE Bodies

\* A call of a free verb function by the caller.
call(verb, json, dollar, endpoint, body, init) ==
    verb_(Asked(verb, json, dollar, endpoint, body, init, 0),
          endpoint, body, init)

\* new SvelteHttpClient(baseUrl, init)
new_SvelteHttpClient(baseUrl, init) ==
    /\ clients = <<>>
    /\ clients' = Append(clients, [baseUrl |-> baseUrl, init |-> init])
    /\ UNCHANGED <<promises, jobs, promisables, observers, fetchCalls, origin,
                   requests, reads>>

\* A verb method of client c:
\* verb(new URL(endpoint, this._baseUrl), body, { ...this._init, ...init })
\* (variant: the defaults win over the per-call options)
SvelteHttpClient_call_defaults_win(c, verb, json, dollar, endpoint, body, init) ==
    /\ ~URLthrows(endpoint, clients[c].baseUrl)
    /\ verb_(Asked(verb, json, dollar, endpoint, body, init, c),
             URL(endpoint, clients[c].baseUrl), body,
             Spread(init, clients[c].init))

\* (variant: the headers of the defaults and of the call are merged)
SvelteHttpClient_call_merging_headers(c, verb, json, dollar, endpoint, body, init) ==
    LET d == clients[c].init
        both == "headers" \in DOMAIN d /\ "headers" \in DOMAIN init
    IN  /\ ~URLthrows(endpoint, clients[c].baseUrl)
        /\ verb_(Asked(verb, json, dollar, endpoint, body, init, c),
                 URL(endpoint, clients[c].baseUrl), body,
                 IF both
                 THEN [Spread(d, init) EXCEPT
                          !.headers = Spread(d.headers, init.headers)]
                 ELSE Spread(d, init))

SvelteHttpClient_call(c, verb, json, dollar, endpoint, body, init) ==
    /\ ~URLthrows(endpoint, clients[c].baseUrl)
    /\ verb_(Asked(verb, json, dollar, endpoint, body, init, c),
             URL(endpoint, clients[c].baseUrl), body,
             Spread(clients[c].init, init))

\* ------------------------------------------------------------- svelte store
\* subscribe(run) makes a new store, readable(_initialValue, start), and
\* subscribes run to it: the subscriber is added, start(set) registers
\* _promise.then(value => set(value)) and sets stop, then run(value) is
\* called synchronously.  atSubscribe and atUnsubscribe remember the state of
\* _promise at those two calls, unhandled the cause the promise made by
\* _promise.then(...) was rejected with (nothing is ever chained to it).
readable(f, value, state) ==
    [promisable |-> f, value |-> value, subscribed |-> TRUE, stop |-> TRUE,
     log |-> <<value>>, atSubscribe |-> state, atUnsubscribe |-> "none",
     unhandled |-> "none"]

\* set(new_value) of the store: value is replaced when safe_not_equal, and
\* the subscribers are run only while the store is started (stop is set).
\* (variant: set() runs the subscriber without looking at stop)
set_after_stop(store, new_value) ==
    IF safe_not_equal(store.value, new_value)
    THEN [store EXCEPT !.value = new_value, !.log = Append(@, new_value)]
    ELSE store

set(store, new_value) ==
    IF safe_not_equal(store.value, new_value)
    THEN [store EXCEPT !.value = new_value,
                       !.log = IF store.stop /\ store.subscribed
                               THEN Append(@, new_value) ELSE @]
    ELSE store

\* (variant: subscribing runs the handler of the link again, as a cold
\* observable does)
subscribe_reruns(f) ==
    LET src == promisables[f].promise
        o == Len(observers) + 1
        r == [kind |-> "set", target |-> o]
        ps == IF promises[src].handler # "none" /\ promises[src].calls # <<>>
              THEN [promises EXCEPT ![src].calls = Append(@, @[1])]
              ELSE promises
    IN  /\ observers' = Append(observers,
                               readable(f, promisables[f].initialValue,
                                        promises[src].state))
        /\ promises' = RegisterPromises(ps, src, r)
        /\ jobs' = RegisterJobs(promises, jobs, src, r)
        /\ UNCHANGED <<promisables, fetchCalls, origin,
                     requests, reads, clients>>

subscribe(f) ==
    LET src == promisables[f].promise
        o == Len(observers) + 1
        r == [kind |-> "set", target |-> o]
    IN  /\ observers' = Append(observers,
                               readable(f, promisables[f].initialValue,
                                        promises[src].state))
        /\ promises' = RegisterPromises(promises, src, r)
        /\ jobs' = RegisterJobs(promises, jobs, src, r)
        /\ UNCHANGED <<promisables, fetchCalls, origin,
                     requests, reads, clients>>

\* The function subscribe returned: the subscriber is deleted and, no
\* subscriber being left, stop() is called and stop is cleared.
\* (variant: the callbacks that wait on the promise are dropped too)
unsubscribe_aborts(o) ==
    /\ observers[o].subscribed
    /\ observers' = [observers EXCEPT
                       ![o].subscribed = FALSE, ![o].stop = FALSE,
                       ![o].atUnsubscribe =
                           promises[promisables[observers[o].promisable].promise].state]
    /\ promises' = [promises EXCEPT
                      ![promisables[observers[o].promisable].promise].reactions = <<>>]
    /\ UNCHANGED <<jobs, promisables, fetchCalls, origin, requests, reads,
                   clients>>

unsubscribe(o) ==
    /\ observers[o].subscribed
    /\ observers' = [observers EXCEPT
                       ![o].subscribed = FALSE, ![o].stop = FALSE,
                       ![o].atUnsubscribe =
                           promises[promisables[observers[o].promisable].promise].state]
    /\ UNCHANGED <<promises, jobs, promisables, fetchCalls, origin,
                 requests, reads, clients>>

\* ------------------------------------------------------------- the network
\* The Response fetch resolves with, and the cause it rejects with.
fetchRespond(i, response) ==
    /\ promises[i].kind = "fetch"
    /\ promises[i].state = "pending"
    /\ promises' = SettlePromises(promises, i, "fulfilled", response)
    /\ jobs' = SettleJobs(promises, jobs, i, "fulfilled", response)
    /\ UNCHANGED <<promisables, observers, fetchCalls, origin, requests,
                   reads, clients>>

fetchResolve(i) == fetchRespond(i, "obj")

fetchReject(i) ==
    /\ promises[i].kind = "fetch"
    /\ promises[i].state = "pending"
    /\ promises' = SettlePromises(promises, i, "rejected", "TypeError")
    /\ jobs' = SettleJobs(promises, jobs, i, "rejected", "TypeError")
    /\ UNCHANGED <<promisables, observers, fetchCalls, origin,
                 requests, reads, clients>>

\* ------------------------------------------------------------- body reads
\* response.json() / response.text() called by the handler of promise target
\* (0 when the handler does not wait for it):
\* a body can be read once, a second read fails with a TypeError; otherwise
\* the handler's promise settles with (state, value) when the read is done.
Read(rs, target, response, how, state, value) ==
    LET used == \E k \in 1..Len(rs) : rs[k].response = response
    IN  [target |-> target, response |-> response, how |-> how,
         state |-> IF used THEN "rejected" ELSE state,
         value |-> IF used THEN "TypeError(body used)" ELSE value,
         done |-> FALSE]

\* ---------------------------------------------------------- microtask queue
\* The job at the head of the queue is a then / catch / finally reaction.
RunReaction ==
    /\ jobs # <<>>
    /\ Head(jobs).kind \in {"then", "catch", "finally"}
    /\ LET j == Head(jobs)
           t == j.target
           h == promises[t].handler
           r == React(j.kind, h, j.state, j.value)
           ps == IF r.called
                 THEN [promises EXCEPT ![t].calls = Append(@, r.arg)]
                 ELSE promises
           how == IF r.called THEN Reads(h, r.arg) ELSE "none"
           waits == how # "none" /\ Awaited(h, r.arg)
       IN  /\ reads' = IF how = "none"
                       THEN reads
                       ELSE Append(reads,
                                   Read(reads, IF waits THEN t ELSE 0, r.arg,
                                        how, r.state, r.value))
           /\ IF waits
              THEN /\ promises' = ps
                   /\ jobs' = Tail(jobs)
              ELSE IF r.ticks = 0
                   THEN /\ promises' = SettlePromises(ps, t, r.state, r.value)
                        /\ jobs' = SettleJobs(ps, Tail(jobs), t, r.state, r.value)
                   ELSE /\ promises' = ps
                        /\ jobs' = Append(Tail(jobs),
                                          Job("resolve", t, r.state, r.value,
                                              r.ticks - 1))
    /\ UNCHANGED <<promisables, observers, fetchCalls, origin, requests,
                   clients>>

\* A read of a body finishes: the handler that awaits it goes on, and the
\* promise derived with that handler takes its outcome two microtasks later.
bodyRead(k) ==
    /\ ~reads[k].done
    /\ reads' = [reads EXCEPT ![k].done = TRUE]
    /\ jobs' = IF reads[k].target = 0
                THEN jobs
                ELSE Append(jobs, Job("resolve", reads[k].target,
                                      reads[k].state, reads[k].value, 1))
    /\ UNCHANGED <<promises, promisables, observers, fetchCalls, origin,
                   requests, clients>>

\* The job at the head resolves a promise with the outcome of a thenable.
RunResolve ==
    /\ jobs # <<>>
    /\ Head(jobs).kind = "resolve"
    /\ LET j == Head(jobs)
       IN  IF j.ticks = 0
           THEN /\ promises' = SettlePromises(promises, j.target, j.state, j.value)
                /\ jobs' = SettleJobs(promises, Tail(jobs), j.target, j.state, j.value)
           ELSE /\ promises' = promises
                /\ jobs' = Append(Tail(jobs), [j EXCEPT !.ticks = @ - 1])
    /\ UNCHANGED <<promisables, observers, fetchCalls, origin,
                 requests, reads, clients>>

\* The job at the head is the callback subscribe gave to _promise.then:
\* value => set(value).  It has no onrejected: a rejection sets nothing and
\* rejects the promise then returned, which nobody handles.
\* (variant: a rejection is set like a value)
RunSet_on_failure ==
    /\ jobs # <<>>
    /\ Head(jobs).kind = "set"
    /\ LET j == Head(jobs)
       IN  observers' = [observers EXCEPT ![j.target] = set(@, j.value)]
    /\ jobs' = Tail(jobs)
    /\ UNCHANGED <<promises, promisables, fetchCalls, origin, requests, reads,
                   clients>>

RunSet ==
    /\ jobs # <<>>
    /\ Head(jobs).kind = "set"
    /\ LET j == Head(jobs)
       IN  observers' = IF j.state = "fulfilled"
                        THEN [observers EXCEPT ![j.target] = set(@, j.value)]
                        ELSE [observers EXCEPT ![j.target].unhandled = j.value]
    /\ jobs' = Tail(jobs)
    /\ UNCHANGED <<promises, promisables, fetchCalls, origin, requests, reads,
                   clients>>

\* ------------------------------------------------------------ specification
Promisables == 1..Len(promisables)

Observers == 1..Len(observers)

Promises == 1..Len(promises)

\* What the caller can pass to startWith$: NaN at any time, the Response
\* only once one of its handlers or observers has been handed it.
Held(q) ==
    \/ q # "obj"
    \/ \E i \in Promises : \E k \in 1..Len(promises[i].calls) :
          promises[i].calls[k] = q
    \/ \E o \in Observers : \E k \in 1..Len(observers[o].log) :
          observers[o].log[k] = q

\* Every operation of a Promisable, the network and the microtask queue.
Next ==
    \/ fetch_
    \/ \E f \in Promisables, h \in Handlers :
          Len(promisables) < MaxPromisables /\ then_(f, h)
    \/ \E f \in Promisables, h \in Handlers :
          Len(promisables) < MaxPromisables /\ catch_(f, h)
    \/ \E f \in Promisables, h \in Handlers :
          Len(promisables) < MaxPromisables /\ finally_(f, h)
    \/ \E f \in Promisables, q \in StartVals :
          Len(promisables) < MaxPromisables /\ Held(q) /\ startWith_(f, q)
    \/ \E f \in Promisables : Len(observers) < MaxObservers /\ subscribe(f)
    \/ \E o \in Observers : unsubscribe(o)
    \/ \E i \in Promises : fetchResolve(i)
    \/ \E i \in Promises : fetchReject(i)
    \/ RunReaction
    \/ RunResolve
    \/ RunSet

Spec == Init /\ [][Next]_vars

\* Chains of then$, catch$ and finally$ that nobody observes.
NextChain ==
    \/ fetch_
    \/ \E f \in Promisables, h \in Handlers :
          Len(promisables) < MaxChain /\ then_(f, h)
    \/ \E f \in Promisables, h \in Handlers :
          Len(promisables) < MaxChain /\ catch_(f, h)
    \/ \E f \in Promisables, h \in Handlers :
          Len(promisables) < MaxChain /\ finally_(f, h)
    \/ \E i \in Promises : fetchResolve(i)
    \/ \E i \in Promises : fetchReject(i)
    \/ RunReaction
    \/ RunResolve

SpecChain == Init /\ [][NextChain]_vars

\* Several observers of a Promisable and of Promisables derived from it.
NextObservers ==
    \/ fetch_
    \/ \E f \in Promisables, h \in Handlers :
          Len(promisables) < MaxObserved /\ then_(f, h)
    \/ \E f \in Promisables, q \in StartVals :
          Len(promisables) < MaxObserved /\ Held(q) /\ startWith_(f, q)
    \/ \E f \in Promisables : Len(observers) < MaxSubscribers /\ subscribe(f)
    \/ \E o \in Observers : unsubscribe(o)
    \/ \E i \in Promises : fetchResolve(i)
    \/ \E i \in Promises : fetchReject(i)
    \/ RunReaction
    \/ RunSet

SpecObservers == Init /\ [][NextObservers]_vars

\* One chain of then$ / catch$ / finally$ links whose last Promisable is
\* observed by several callers.
NextEager ==
    \/ fetch_
    \/ \E h \in Handlers :
          /\ promisables # <<>>
          /\ Len(promisables) < MaxEager
          /\ \/ then_(Len(promisables), h)
             \/ catch_(Len(promisables), h)
             \/ finally_(Len(promisables), h)
    \/ /\ Len(promisables) > 1
       /\ Len(observers) < MaxWatchers
       /\ subscribe(Len(promisables))
    \/ \E o \in Observers : unsubscribe(o)
    \/ \E i \in Promises : fetchResolve(i)
    \/ \E i \in Promises : fetchReject(i)
    \/ RunReaction
    \/ RunResolve
    \/ RunSet

SpecEager == Init /\ [][NextEager]_vars

\* The placeholders a caller gives to startWith$: NaN and a string.
Placeholders == {"NaN", String("hello")}

\* One chain in which startWith$ and then$ / catch$ / finally$ alternate; a
\* link may be observed before the next one is derived from it.
NextPlaced ==
    \/ fetch_
    \/ /\ promisables # <<>>
       /\ Len(promisables) < MaxPlaced
       /\ \/ then_(Len(promisables), "void")
          \/ catch_(Len(promisables), "void")
          \/ finally_(Len(promisables), "void")
    \/ \E q \in Placeholders :
          /\ promisables # <<>>
          /\ Len(promisables) < MaxPlaced
          /\ startWith_(Len(promisables), q)
    \/ /\ promisables # <<>>
       /\ Len(observers) < MaxViewers
       /\ subscribe(Len(promisables))
    \/ \E i \in Promises : fetchResolve(i)
    \/ \E i \in Promises : fetchReject(i)
    \/ RunReaction
    \/ RunResolve
    \/ RunSet

SpecPlaced == Init /\ [][NextPlaced]_vars

\* The Promisables the caller holds: those its calls returned.
Returned ==
    {f \in Promisables :
        \A k \in 1..Len(requests) : promisables[f].promise >= requests[k].result}

\* getJson$, and the chains the caller builds on what it returned.
NextFailures ==
    \/ /\ requests = <<>>
       /\ call("get", TRUE, TRUE, "posts", "undefined", NoInit)
    \/ \E f \in Returned, h \in Handlers :
          Len(promisables) < MaxLinked /\ then_(f, h)
    \/ \E f \in Returned, h \in Handlers :
          Len(promisables) < MaxLinked /\ catch_(f, h)
    \/ \E f \in Returned, h \in Handlers :
          Len(promisables) < MaxLinked /\ finally_(f, h)
    \/ \E i \in Promises, response \in Responses : fetchRespond(i, response)
    \/ \E i \in Promises : fetchReject(i)
    \/ RunReaction
    \/ RunResolve
    \/ \E k \in 1..Len(reads) : bodyRead(k)

SpecFailures == Init /\ [][NextFailures]_vars

\* g = f.then$(a) and h = g.then$(b), with named handlers a and b
Chained(g, h) ==
    /\ origin[g].by = "then" /\ origin[g].arg \in Plain
    /\ origin[h].by = "then" /\ origin[h].arg \in Plain
    /\ origin[h].from = g

\* One chain of then$ with named handlers, and for every f.then$(a).then$(b)
\* in it the Promisable f.then$(x => b(a(x))).
NextCompose ==
    \/ fetch_
    \/ \E f \in Promisables, a \in ComposeHandlers :
          /\ Len(promisables) < MaxComposed
          /\ origin[f].arg \in Plain \cup {"none"}
          /\ \A g \in Promisables :
                origin[g].from = f => origin[g].arg \notin Plain
          /\ then_(f, a)
    \/ \E g \in Promisables, h \in Promisables :
          /\ Len(promisables) < MaxComposed
          /\ Chained(g, h)
          /\ then_(origin[g].from, Compose(origin[g].arg, origin[h].arg))
    \/ \E i \in Promises, response \in Responses : fetchRespond(i, response)
    \/ \E i \in Promises : fetchReject(i)
    \/ RunReaction
    \/ RunResolve
    \/ \E k \in 1..Len(reads) : bodyRead(k)

SpecCompose == Init /\ [][NextCompose]_vars

Clients == 1..Len(clients)

Reads_ == 1..Len(reads)

\* One call of a verb, free or of a client, and what becomes of it.
NextVerbs ==
    \/ /\ requests = <<>>
       /\ \E baseUrl \in Bases, init \in Defaults :
             new_SvelteHttpClient(baseUrl, init)
    \/ /\ requests = <<>>
       /\ \E verb \in Verbs, json \in BOOLEAN, dollar \in BOOLEAN,
             endpoint \in Endpoints, init \in PerCall :
             \E body \in BodiesOf(verb) :
                call(verb, json, dollar, endpoint, body, init)
    \/ /\ requests = <<>>
       /\ \E c \in Clients, verb \in Verbs, json \in BOOLEAN,
             dollar \in BOOLEAN, endpoint \in Endpoints, init \in PerCall :
             \E body \in BodiesOf(verb) :
                SvelteHttpClient_call(c, verb, json, dollar, endpoint, body,
                                      init)
    \/ \E i \in Promises, response \in Responses : fetchRespond(i, response)
    \/ \E i \in Promises : fetchReject(i)
    \/ RunReaction
    \/ RunResolve
    \/ \E k \in Reads_ : bodyRead(k)

SpecVerbs == Init /\ [][NextVerbs]_vars

\* ================================================================== claims
\* What an observer is attached to.
PromiseOf(o) == promises[promisables[observers[o].promisable].promise]

PlaceholderOf(o) == promisables[observers[o].promisable].initialValue

\* The callback subscribe gave to _promise.then has not run yet: it waits on
\* the promise or in the microtask queue.
Waiting(o) ==
    \/ \E k \in 1..Len(PromiseOf(o).reactions) :
          PromiseOf(o).reactions[k] = [kind |-> "set", target |-> o]
    \/ \E k \in 1..Len(jobs) : jobs[k].kind = "set" /\ jobs[k].target = o

\* The promise succeeded and the observer's callback has run.
Delivered(o) == PromiseOf(o).state = "fulfilled" /\ ~Waiting(o)

\* The observer subscribed before settlement and never unsubscribed.
Early(o) == observers[o].atSubscribe = "pending" /\ observers[o].subscribed

\* The observer subscribed after the promise succeeded and never unsubscribed.
Late(o) == observers[o].atSubscribe = "fulfilled" /\ observers[o].subscribed

\* The placeholder and the settled value are one and the same primitive.
SamePrimitive(p, v) == p = v /\ ~IsObject(p)

\* How often value v was handed to the observer.
Times(log, v) == Cardinality({k \in 1..Len(log) : log[k] = v})

\* C1 as stated: an observer that subscribes before settlement and stays
\* subscribed is invoked with the placeholder p inside subscribe and, once
\* the operation has resolved to v, with v: p then v, each once, nothing
\* else, whatever p and v are.
C1_Original ==
    \A o \in Observers :
        Early(o) =>
            /\ Waiting(o) => observers[o].log = <<PlaceholderOf(o)>>
            /\ Delivered(o) =>
                  observers[o].log = <<PlaceholderOf(o), PromiseOf(o).value>>

\* C1 amended: the same, provided v is not the very primitive p is; when p
\* and v are the same primitive (undefined and undefined, NaN and NaN) the
\* observer is invoked once only, inside subscribe, with p.
C1_PlaceholderThenValue ==
    \A o \in Observers :
        Early(o) =>
            /\ Waiting(o) => observers[o].log = <<PlaceholderOf(o)>>
            /\ Delivered(o) =>
                  observers[o].log =
                      IF SamePrimitive(PlaceholderOf(o), PromiseOf(o).value)
                      THEN <<PlaceholderOf(o)>>
                      ELSE <<PlaceholderOf(o), PromiseOf(o).value>>

\* An early observer has been handed the placeholder and then the value.
C1_Witness ==
    \E o \in Observers :
        /\ Early(o)
        /\ Delivered(o)
        /\ observers[o].log = <<"undefined", "obj">>

C3_ReplayAtSubscribe ==
    \A o \in Observers :
        observers[o].log[1] =
            IF observers[o].atSubscribe = "fulfilled"
            THEN PromiseOf(o).value
            ELSE PlaceholderOf(o)

\* C4: an observer that unsubscribed before settlement is never invoked
\* again: all it was ever handed is the placeholder, also after settlement.
C4_NoCallAfterUnsubscribe ==
    \A o \in Observers :
        observers[o].atUnsubscribe = "pending" =>
            observers[o].log = <<PlaceholderOf(o)>>

\* An observer unsubscribed while the operation was pending, the operation
\* then succeeded with a value that differs from the placeholder, and the
\* observer's callback has run.
C4_Witness ==
    \E o \in Observers :
        /\ observers[o].atUnsubscribe = "pending"
        /\ Delivered(o)
        /\ PlaceholderOf(o) # PromiseOf(o).value
        /\ observers[o].value = PromiseOf(o).value

\* ------------------------------------------------------------------ chains
\* The links made by then$, catch$ and finally$, and the promise each reacts to.
Links(kind) == {d \in Promises : promises[d].kind = kind}

ParentOf(d) == promises[promises[d].parent]

Settled(pr) == pr.state # "pending"

\* C5: in f.then$(g), when f fails with cause c, g is never invoked and the
\* derived Promisable fails with c (it never succeeds, and it is settled
\* with nothing but c).
C5_ThenSkippedOnFailure ==
    \A d \in Links("then") :
        ParentOf(d).state = "rejected" =>
            /\ promises[d].calls = <<>>
            /\ promises[d].state # "fulfilled"
            /\ promises[d].state = "rejected" =>
                  promises[d].value = ParentOf(d).value

\* f failed, and the Promisable derived by then$ has failed in turn.
C5_Witness ==
    \E d \in Links("then") :
        /\ ParentOf(d).state = "rejected"
        /\ promises[d].state = "rejected"
        /\ promises[d].value = "TypeError"

\* The links c = t.catch$(h) whose receiver is t = f.then$(g).
ThenCatch == {c \in Links("catch") : ParentOf(c).kind = "then"}

\* the outcome of a handler call as a promise outcome
SameOutcome(pr, out) ==
    /\ pr.state = (IF out.ok THEN "fulfilled" ELSE "rejected")
    /\ pr.value = out.value

\* C6 as stated: f.then$(g).catch$(h) settles with the outcome of h(cause)
\* when f fails with cause, and with g's result, h not touching it, when f
\* succeeds.
C6_Original ==
    \A c \in ThenCatch :
        LET t == ParentOf(c)
            f == promises[t.parent]
        IN  Settled(promises[c]) =>
              /\ f.state = "rejected" =>
                    SameOutcome(promises[c], Apply(promises[c].handler, f.value))
              /\ f.state = "fulfilled" =>
                    /\ promises[c].state = t.state
                    /\ promises[c].value = t.value

\* C6 amended: when f fails with cause, g is not invoked, h is invoked once
\* with cause and the chain settles with the outcome of h(cause); when f
\* succeeds and g returns r, h is not invoked and the chain succeeds with r;
\* when f succeeds and g throws e, h is invoked once with e and the chain
\* settles with the outcome of h(e).
C6_ThenCatch ==
    \A c \in ThenCatch :
        LET t == ParentOf(c)
            f == promises[t.parent]
            g == Apply(t.handler, f.value)
            h == promises[c].handler
        IN  Settled(promises[c]) =>
              /\ f.state = "rejected" =>
                    /\ t.calls = <<>>
                    /\ promises[c].calls = <<f.value>>
                    /\ SameOutcome(promises[c], Apply(h, f.value))
              /\ f.state = "fulfilled" /\ g.ok =>
                    /\ promises[c].calls = <<>>
                    /\ SameOutcome(promises[c], g)
              /\ f.state = "fulfilled" /\ ~g.ok =>
                    /\ promises[c].calls = <<g.value>>
                    /\ SameOutcome(promises[c], Apply(h, g.value))

\* f failed and the chain has settled with what h returned for the cause.
C6_Witness ==
    \E c \in ThenCatch :
        /\ promises[ParentOf(c).parent].state = "rejected"
        /\ promises[c].calls = <<"TypeError">>
        /\ promises[c].state = "fulfilled"

\* C7 as stated: f.finally$(s) invokes s exactly once when f settles and
\* the derived Promisable settles with f's own outcome, for every s.
C7_Original ==
    \A d \in Links("finally") :
        /\ Len(promises[d].calls) <= 1
        /\ Settled(promises[d]) =>
              /\ Len(promises[d].calls) = 1
              /\ promises[d].state = ParentOf(d).state
              /\ promises[d].value = ParentOf(d).value

\* C7 amended: s is invoked exactly once, without arguments, whether f
\* succeeds or fails; the derived Promisable settles with f's own outcome
\* when s returns normally, and fails with the cause s throws when s throws.
C7_Finally ==
    \A d \in Links("finally") :
        /\ Len(promises[d].calls) <= 1
        /\ Settled(promises[d]) =>
              /\ promises[d].calls = <<"undefined">>
              /\ IF Apply(promises[d].handler, "undefined").ok
                 THEN /\ promises[d].state = ParentOf(d).state
                      /\ promises[d].value = ParentOf(d).value
                 ELSE SameOutcome(promises[d],
                                  Apply(promises[d].handler, "undefined"))

\* f failed, s ran and returned, and the derived Promisable failed with f's
\* cause.
C7_Witness ==
    \E d \in Links("finally") :
        /\ promises[d].calls = <<"undefined">>
        /\ promises[d].state = "rejected"
        /\ promises[d].value = "TypeError"
        /\ ParentOf(d).value = "TypeError"

\* The failure of promise a was raised at a itself: a is the network call,
\* or a's handler was invoked and threw.
RaisedAt(a) ==
    /\ promises[a].state = "rejected"
    /\ \/ promises[a].kind = "fetch"
       \/ /\ promises[a].calls # <<>>
          /\ ~Apply(promises[a].handler, promises[a].calls[1]).ok

\* d comes after a in a chain, with nothing but then$ and finally$ links
\* from the link after a up to and including d.
RECURSIVE Follows(_, _)
Follows(a, d) ==
    /\ d > a
    /\ promises[d].kind \in {"then", "finally"}
    /\ promises[d].parent = a \/ Follows(a, promises[d].parent)

\* The same, where every finally$ link on the way has a handler that
\* returns normally.
RECURSIVE Carries(_, _)
Carries(a, d) ==
    /\ d > a
    /\ \/ promises[d].kind = "then"
       \/ /\ promises[d].kind = "finally"
          /\ Apply(promises[d].handler, "undefined").ok
    /\ promises[d].parent = a \/ Carries(a, promises[d].parent)

\* After a catch$ handler returned normally the then$ links that follow run.
ThenRunsAfterCatch ==
    \A t \in Links("then") :
        /\ ParentOf(t).kind = "catch"
        /\ ParentOf(t).state = "fulfilled"
        /\ Settled(promises[t])
        => promises[t].calls = <<ParentOf(t).value>>

\* C8 as stated: a failure raised at link a with cause c skips the handler
\* of every then$ link that follows, up to the next catch$ link, whose
\* handler is invoked with c; every finally$ link on the way runs and the
\* failure c reaches the links after it; after a catch$ handler returned
\* normally the following then$ links run.
C8_Original ==
    /\ \A a \in Promises, d \in Promises :
          /\ RaisedAt(a)
          /\ promises[d].parent = a \/ Follows(a, promises[d].parent)
          /\ Settled(promises[d])
          => CASE promises[d].kind = "then" ->
                    /\ promises[d].calls = <<>>
                    /\ promises[d].state = "rejected"
                    /\ promises[d].value = promises[a].value
               [] promises[d].kind = "finally" ->
                    /\ promises[d].calls = <<"undefined">>
                    /\ promises[d].state = "rejected"
                    /\ promises[d].value = promises[a].value
               [] promises[d].kind = "catch" ->
                    promises[d].calls = <<promises[a].value>>
    /\ ThenRunsAfterCatch

\* C8 amended: the same, where the failure c passes a finally$ link whose
\* handler returns normally; a finally$ link on the way whose handler throws
\* runs too, and fails with the cause its handler threw, which is the
\* failure the links after it get.
C8_FailurePropagates ==
    /\ \A a \in Promises, d \in Promises :
          /\ RaisedAt(a)
          /\ promises[d].parent = a \/ Carries(a, promises[d].parent)
          /\ Settled(promises[d])
          => CASE promises[d].kind = "then" ->
                    /\ promises[d].calls = <<>>
                    /\ promises[d].state = "rejected"
                    /\ promises[d].value = promises[a].value
               [] promises[d].kind = "finally" ->
                    /\ promises[d].calls = <<"undefined">>
                    /\ promises[d].state = "rejected"
                    /\ promises[d].value =
                          IF Apply(promises[d].handler, "undefined").ok
                          THEN promises[a].value
                          ELSE Apply(promises[d].handler, "undefined").value
               [] promises[d].kind = "catch" ->
                    promises[d].calls = <<promises[a].value>>
    /\ ThenRunsAfterCatch

\* The network call failed, the then$ link after it was skipped, the
\* finally$ link after that ran, and the catch$ link after that was invoked
\* with the network's cause.
C8_Witness ==
    \E t \in Links("then"), s \in Links("finally"), c \in Links("catch") :
        /\ RaisedAt(promises[t].parent)
        /\ promises[s].parent = t
        /\ promises[c].parent = s
        /\ promises[t].calls = <<>>
        /\ promises[s].calls = <<"undefined">>
        /\ promises[c].calls = <<"TypeError">>
        /\ Settled(promises[c])

\* ------------------------------------------------------------ one operation
\* C9: a fetch$ call starts the network call once, at construction, and no
\* then$, catch$, finally$, startWith$, subscribe or unsubscribe on the
\* Promisable it returned, or on one derived from it, starts another: fetch
\* has been called once, and one promise made by fetch backs them all.
C9_OneNetworkCall ==
    /\ promisables = <<>> => fetchCalls = 0
    /\ promisables # <<>> =>
          /\ fetchCalls = 1
          /\ Cardinality(Links("fetch")) = 1

\* A Promisable was derived, observed and unsubscribed from after the one
\* network call settled.
C9_Witness ==
    /\ fetchCalls = 1
    /\ Len(promisables) > 1
    /\ \E o \in Observers :
          /\ ~observers[o].subscribed
          /\ observers[o].promisable > 1
          /\ Settled(PromiseOf(o))

\* The observers of Promisable f
ObserversOf(f) == {o \in Observers : observers[o].promisable = f}

\* The last value an observer was handed
LastSeen(o) == observers[o].log[Len(observers[o].log)]

RECURSIVE PlaceholderBy(_)
PlaceholderBy(f) ==
    CASE origin[f].by = "fetch" -> "undefined"
      [] origin[f].by = "startWith" -> origin[f].arg
      [] OTHER -> PlaceholderBy(origin[f].from)

\* The outcome of Promisable f as the calls that made it give it: that of the
\* network call for fetch$, the receiver's for startWith$, and what the
\* handler makes of the receiver's for then$, catch$ and finally$.
RECURSIVE OutcomeBy(_)
OutcomeBy(f) ==
    CASE origin[f].by = "fetch" ->
            LET net == promises[CHOOSE i \in Links("fetch") : TRUE]
            IN  [state |-> net.state, value |-> net.value]
      [] origin[f].by = "startWith" -> OutcomeBy(origin[f].from)
      [] OTHER ->
            LET was == OutcomeBy(origin[f].from)
                r == React(origin[f].by, origin[f].arg, was.state, was.value)
            IN  IF was.state = "pending"
                THEN was
                ELSE [state |-> r.state, value |-> r.value]

\* C11: then$, catch$, finally$ and startWith$ leave the receiver as it was:
\* whatever was derived from a Promisable, before or after settlement, its
\* placeholder and its outcome are those its own making gave it, and its
\* observers are handed that placeholder and, on success, that value.
C11_ReceiverUnchanged ==
    \A f \in Promisables :
        LET pr == promises[promisables[f].promise]
        IN  /\ promisables[f].initialValue = PlaceholderBy(f)
            /\ Settled(pr) =>
                  /\ pr.state = OutcomeBy(f).state
                  /\ pr.value = OutcomeBy(f).value
            /\ \A o \in ObserversOf(f) :
                  /\ observers[o].log[1] = PlaceholderBy(f)
                  /\ Len(observers[o].log) <= 2
                  /\ Len(observers[o].log) = 2 =>
                        /\ OutcomeBy(f).state = "fulfilled"
                        /\ observers[o].log[2] = OutcomeBy(f).value

\* A Promisable was derived by then$ from the one fetch$ returned and has
\* settled with its handler's value, and an observer of the receiver was
\* handed the receiver's placeholder and the Response.
C11_Witness ==
    \E f \in Promisables, g \in Promisables :
        /\ origin[f].by = "fetch"
        /\ origin[g].by = "then"
        /\ origin[g].from = f
        /\ promises[promisables[g].promise].state = "fulfilled"
        /\ promises[promisables[g].promise].value = "undefined"
        /\ \E o \in ObserversOf(f) : observers[o].log = <<"undefined", "obj">>

\* ------------------------------------------------------------------ verbs
Requests == 1..Len(requests)

\* the promises of request k: the one fetch returned, the one that
\* fetchResponseHandler settles, and the one handed back to the caller
RootOf(k) ==
    IF requests[k].asked.json
    THEN promises[promises[requests[k].result].parent].parent
    ELSE promises[requests[k].result].parent

ClassifiedOf(k) ==
    IF requests[k].asked.json
    THEN promises[requests[k].result].parent
    ELSE requests[k].result

ResultOf(k) == requests[k].result

\* what the body of a response can be decoded to
BodyValues ==
    {String(BodyText(r)) : r \in Responses} \cup
    {JSONparse(BodyText(r)).value : r \in Responses}

\* cause is an HttpError that carries the status code and status text of
\* response r, and its body: decoded as JSON when the content-type header
\* contains application/json, as text otherwise
IsHttpErrorOf(cause, r) ==
    \E b \in BodyValues :
        /\ cause = HttpError(Status(r), StatusText(r), b)
        /\ IncludesJson(ContentType(r)) /\ JSONparse(BodyText(r)).ok =>
              b = JSONparse(BodyText(r)).value
        /\ ~IncludesJson(ContentType(r)) => b = String(BodyText(r))

\* C13: fetchResponseHandler returns an ok response unchanged, and for every
\* other response fails with an HttpError that carries the response's status
\* code, status text and body, the body decoded as JSON when the content-type
\* header contains application/json and read as text otherwise.
C13_ClassifyResponse ==
    \A k \in Requests :
        LET root == promises[RootOf(k)]
            got == promises[ClassifiedOf(k)]
        IN  root.state = "fulfilled" /\ Settled(got) =>
               IF ResponseOk(root.value)
               THEN got.state = "fulfilled" /\ got.value = root.value
               ELSE got.state = "rejected" /\ IsHttpErrorOf(got.value, root.value)

\* C14: when fetch itself fails, the promise of every verb fails with that
\* very cause: neither fetchResponseHandler nor jsonUnwrapper is called, no
\* body is read, and the cause is not an HttpError.
C14_TransportFailure ==
    \A k \in Requests :
        LET root == promises[RootOf(k)]
            result == promises[ResultOf(k)]
        IN  root.state = "rejected" =>
               /\ root.value = "TypeError"
               /\ promises[ClassifiedOf(k)].calls = <<>>
               /\ result.calls = <<>>
               /\ reads = <<>>
               /\ Settled(promises[ClassifiedOf(k)]) =>
                     /\ promises[ClassifiedOf(k)].state = "rejected"
                     /\ promises[ClassifiedOf(k)].value = root.value
               /\ Settled(result) =>
                     /\ result.state = "rejected"
                     /\ result.value = root.value

\* fetch failed, and the promise of a Json verb has failed with its cause.
C14_Witness ==
    \E k \in Requests :
        /\ requests[k].asked.json
        /\ promises[RootOf(k)].state = "rejected"
        /\ promises[ResultOf(k)].state = "rejected"
        /\ promises[ResultOf(k)].value = "TypeError"

\* C15: a Json verb classifies first and decodes second: jsonUnwrapper is
\* called only with what fetchResponseHandler returned; for a response that
\* is not ok it is never called and the promise fails with the HttpError; for
\* an ok response with a JSON body the promise settles with the decoded
\* body.  The raw verb settles with the ok Response itself.
C15_ClassifyThenDecode ==
    \A k \in Requests :
        LET root == promises[RootOf(k)]
            classified == promises[ClassifiedOf(k)]
            result == promises[ResultOf(k)]
            r == root.value
        IN  IF requests[k].asked.json
            THEN /\ result.calls # <<>> =>
                       /\ classified.calls = <<r>>
                       /\ classified.state = "fulfilled"
                       /\ result.calls = <<classified.value>>
                 /\ root.state = "fulfilled" /\ Settled(result) =>
                       IF ResponseOk(r)
                       THEN JSONparse(BodyText(r)).ok =>
                               /\ result.state = "fulfilled"
                               /\ result.value = JSONparse(BodyText(r)).value
                       ELSE /\ result.calls = <<>>
                            /\ result.state = "rejected"
                            /\ IsHttpErrorOf(result.value, r)
            ELSE root.state = "fulfilled" /\ Settled(result) /\ ResponseOk(r) =>
                    result.state = "fulfilled" /\ result.value = r

\* ------------------------------------------------------------- the request
\* the HTTP method of a verb
MethodOf(verb) ==
    CASE verb = "get" -> "GET"
      [] verb = "post" -> "POST"
      [] verb = "put" -> "PUT"
      [] verb = "patch" -> "PATCH"
      [] verb = "del" -> "DELETE"

WithBody == {"post", "put", "patch"}

\* the text JSON.stringify makes of the body argument of a call
SerializedBody(body) ==
    CASE body = "undefined" -> "'null'"
      [] body = "Array(1)" -> "'[1]'"

\* the keys of the request a verb sets itself
SetBy(verb) == IF verb \in WithBody THEN {"method", "body"} ELSE {"method"}

\* the requests made by free verb functions, and by verb methods of clients
FreeRequests == {k \in Requests : requests[k].asked.verb \in Verbs
                                  /\ requests[k].asked.client = 0}

ClientRequests == {k \in Requests : requests[k].asked.verb \in Verbs
                                    /\ requests[k].asked.client # 0}

\* Request init o carries the verb's own method and, for POST, PUT and
\* PATCH, the serialized body argument.
CarriesOwn(o, asked) ==
    /\ o.method = MethodOf(asked.verb)
    /\ asked.verb \in WithBody => o.body = SerializedBody(asked.body)

\* Every key of bag given except those in keys is in o, with the same value.
PassedThrough(o, given, keys) ==
    \A key \in DOMAIN given \ keys :
        key \in DOMAIN o /\ o[key] = given[key]

\* C16 as stated: the request carries the verb's own method and serialized
\* body, a method or a body of the caller's options never reaches it, and
\* every other option of the caller is passed through unchanged.
C16_Original ==
    \A k \in FreeRequests :
        LET asked == requests[k].asked
            o == requests[k].init
        IN  /\ CarriesOwn(o, asked)
            /\ "method" \in DOMAIN asked.init => o.method # asked.init.method
            /\ "body" \in DOMAIN asked.init =>
                  ~("body" \in DOMAIN o /\ o.body = asked.init.body)
            /\ PassedThrough(o, asked.init, {"method", "body"})

\* C16: the request carries the verb's own method and, for POST, PUT and
\* PATCH, the JSON text of the body argument; the keys the verb sets itself
\* (method, and body for POST, PUT and PATCH) never come from the caller's
\* options; every other option of the caller, the body given to a GET or a
\* DELETE included, is passed through unchanged, and nothing else is added.
C16_MethodAndBody ==
    \A k \in FreeRequests :
        LET asked == requests[k].asked
            o == requests[k].init
        IN  /\ CarriesOwn(o, asked)
            /\ PassedThrough(o, asked.init, SetBy(asked.verb))
            /\ DOMAIN o = DOMAIN asked.init \cup SetBy(asked.verb)
            /\ requests[k].input = asked.endpoint

\* A POST was asked with a method and a body in the options and with a body
\* argument, and was issued as a POST of the serialized argument, the other
\* option kept.
C16_Witness ==
    \E k \in FreeRequests :
        /\ requests[k].asked.verb = "post"
        /\ requests[k].asked.body = "Array(1)"
        /\ requests[k].asked.init =
              [method |-> "TRACE", body |-> "'raw'", mode |-> "cors"]
        /\ requests[k].init =
              [method |-> "POST", body |-> "'[1]'", mode |-> "cors"]

\* C17: a verb method of a client issues the request the free verb function
\* issues for the endpoint resolved against the base address and for the
\* options of the defaults and of the call together: a key of both has the
\* per-call value, a key of one only is kept; and the client stays as it was
\* constructed.
C17_ClientDelegates ==
    \A k \in ClientRequests :
        LET asked == requests[k].asked
            o == requests[k].init
            was == requests[k].clients[asked.client]
            d == was.init
            p == asked.init
            rest == (DOMAIN d \cup DOMAIN p) \ SetBy(asked.verb)
        IN  /\ clients = requests[k].clients
            /\ requests[k].input = URL(asked.endpoint, was.baseUrl)
            /\ IsAbsolute(asked.endpoint) => requests[k].input = asked.endpoint
            /\ CarriesOwn(o, asked)
            /\ DOMAIN o = rest \cup SetBy(asked.verb)
            /\ \A key \in rest :
                  o[key] = IF key \in DOMAIN p THEN p[key] ELSE d[key]
            /\ promises[ClassifiedOf(k)].handler = "fetchResponseHandler"
            /\ asked.json => promises[ResultOf(k)].handler = "jsonUnwrapper"

\* A client with a file as base address and with default options was asked
\* to put a relative endpoint with options that collide with the defaults.
C17_Witness ==
    \E k \in ClientRequests :
        /\ requests[k].asked.verb = "put"
        /\ clients[requests[k].asked.client] =
              [baseUrl |-> "https://api.example.com/v1/x",
               init |-> [method |-> "HEAD", mode |-> "same-origin"]]
        /\ requests[k].asked.endpoint = "posts"
        /\ requests[k].asked.init =
              [method |-> "TRACE", body |-> "'raw'", mode |-> "cors"]
        /\ requests[k].input = "https://api.example.com/v1/posts"
        /\ requests[k].init =
              [method |-> "PUT", body |-> "'null'", mode |-> "cors"]

\* the get calls of a client made with the default headers {x: "1"}
DefaultHeaderGets ==
    {k \in ClientRequests :
        /\ requests[k].asked.verb = "get"
        /\ requests[k].clients[requests[k].asked.client].init =
              [headers |-> [x |-> "1"]]}

\* C18 as stated: with per-call headers {y: "2"} the request carries both
\* x = "1" and y = "2"; with per-call headers {x: "2"} it carries x = "2".
C18_Original ==
    \A k \in DefaultHeaderGets :
        LET h == requests[k].init.headers
        IN  /\ requests[k].asked.init = [headers |-> [y |-> "2"]] =>
                  /\ DOMAIN h = {"x", "y"}
                  /\ h.x = "1"
                  /\ h.y = "2"
            /\ requests[k].asked.init = [headers |-> [x |-> "2"]] =>
                  h.x = "2"

\* C18: the per-call headers replace the default headers as a whole: with
\* per-call headers {y: "2"} the request carries y = "2" and no header x;
\* with per-call headers {x: "2"} it carries x = "2"; without per-call
\* headers it carries the default x = "1".
C18_HeadersReplaced ==
    \A k \in DefaultHeaderGets :
        LET h == requests[k].init.headers
        IN  /\ requests[k].asked.init = [headers |-> [y |-> "2"]] =>
                  h = [y |-> "2"]
            /\ requests[k].asked.init = [headers |-> [x |-> "2"]] =>
                  h = [x |-> "2"]
            /\ "headers" \notin DOMAIN requests[k].asked.init =>
                  h = [x |-> "1"]

\* A client with the default headers {x: "1"} issued a get that was called
\* with the headers {y: "2"}.
C18_Witness ==
    \E k \in DefaultHeaderGets :
        /\ requests[k].asked.init = [headers |-> [y |-> "2"]]
        /\ requests[k].init = [method |-> "GET", headers |-> [y |-> "2"]]

\* ------------------------------------------------------ the three failures
\* The kind of the failure raised at promise a: fetch failed, the Response
\* was classified as a failure by the library, or a handler of the caller
\* threw.
KindOf(a) ==
    CASE promises[a].kind = "fetch" -> "transport"
      [] Async(promises[a].handler) -> "http"
      [] OTHER -> "transform"

\* the catch$ links next to a failure raised at a: reached from a through
\* then$ links and finally$ links that return normally
NextCatch(a) ==
    {d \in Links("catch") :
        promises[d].parent = a \/ Carries(a, promises[d].parent)}

\* C19: whatever its kind, a failure raised at a link reaches the next
\* catch$ link downstream with its cause as it was raised: the handler of
\* that link is invoked exactly once, with exactly that cause, and every
\* link passed on the way fails with that cause too.
C19_UniformPropagation ==
    \A a \in Promises :
        RaisedAt(a) =>
            /\ KindOf(a) = "transport" => promises[a].value = "TypeError"
            /\ KindOf(a) = "transform" => promises[a].value = "boom"
            /\ \A d \in Promises :
                  Carries(a, d) /\ Settled(promises[d]) =>
                      /\ promises[d].state = "rejected"
                      /\ promises[d].value = promises[a].value
            /\ \A d \in NextCatch(a) :
                  /\ Len(promises[d].calls) <= 1
                  /\ Settled(promises[d]) =>
                        promises[d].calls = <<promises[a].value>>

\* The library classified a 404 response as a failure: the HttpError passed
\* jsonUnwrapper and reached a catch$ handler, which threw; what it threw
\* reached the next catch$ handler.
C19_Witness ==
    \E a \in Promises, c \in Links("catch"), d \in Links("catch") :
        /\ RaisedAt(a) /\ KindOf(a) = "http"
        /\ promises[a].value = HttpError("404", "Not Found", "Object()")
        /\ c \in NextCatch(a)
        /\ promises[c].parent # a
        /\ promises[c].calls = <<promises[a].value>>
        /\ RaisedAt(c) /\ KindOf(c) = "transform"
        /\ d \in NextCatch(c)
        /\ promises[d].calls = <<"boom">>

\* -------------------------------------------------------------- composition
\* g = f.then$(a), h = g.then$(b) and c = f.then$(x => b(a(x)))
Triples ==
    {t \in Promisables \X Promisables \X Promisables :
        /\ Chained(t[1], t[2])
        /\ origin[t[3]].by = "then"
        /\ origin[t[3]].from = origin[t[1]].from
        /\ origin[t[3]].arg = Compose(origin[t[1]].arg, origin[t[2]].arg)}

\* b applied to what a makes of the outcome of f: the failure of f, the
\* failure of a, or the outcome of b
Expected(a, b, state, value) ==
    IF state = "rejected"
    THEN [state |-> "rejected", value |-> value]
    ELSE IF ~ApplyPlain(a, value).ok
         THEN [state |-> "rejected", value |-> ApplyPlain(a, value).value]
         ELSE LET out == ApplyPlain(b, ApplyPlain(a, value).value)
              IN  [state |-> IF out.ok THEN "fulfilled" ELSE "rejected",
                   value |-> out.value]

\* Promisable p read a body that another Promisable of the run had read
\* before (the two forms are compared where each reads its Response alone).
ReadTwice(p) ==
    \E k \in 1..Len(reads) :
        /\ reads[k].target = promisables[p].promise
        /\ reads[k].value = "TypeError(body used)"

\* The chain ending in h and the composed c settle alike: with b applied to
\* what a makes of the outcome of f; when f fails no handler is called, and
\* when a fails b is not called.
Agree(g, h, c) ==
    LET f == origin[g].from
        pf == promises[promisables[f].promise]
        pg == promises[promisables[g].promise]
        ph == promises[promisables[h].promise]
        pc == promises[promisables[c].promise]
        e == Expected(origin[g].arg, origin[h].arg, pf.state, pf.value)
    IN  /\ Settled(ph) /\ ~ReadTwice(g) /\ ~ReadTwice(h) =>
              ph.state = e.state /\ ph.value = e.value
        /\ Settled(pc) /\ ~ReadTwice(c) =>
              pc.state = e.state /\ pc.value = e.value
        /\ pf.state = "rejected" =>
              pg.calls = <<>> /\ ph.calls = <<>> /\ pc.calls = <<>>
        /\ pg.state = "rejected" => ph.calls = <<>>

\* C12 as stated: for all handlers a and b, f.then$(a).then$(b) and
\* f.then$(x => b(a(x))) settle with the same outcome.
C12_Original ==
    \A t \in Triples : Agree(t[1], t[2], t[3])

\* C12: for every handler a that returns or throws synchronously, and every
\* handler b, f.then$(a).then$(b) and f.then$(x => b(a(x))) settle with the
\* same outcome: the value of b(a(x)) when f succeeds and both return, the
\* cause of f with no handler called when f fails, the cause of a with b not
\* called when a throws.
C12_ComposeSync ==
    \A t \in Triples :
        ~Async(origin[t[1]].arg) => Agree(t[1], t[2], t[3])

\* f succeeded with an ok Response, a returned it, b classified it as ok, and
\* the composed handler, called with the same Response, returned it too.
C12_Witness ==
    \E t \in Triples :
        /\ origin[t[1]].arg = "same"
        /\ origin[t[2]].arg = "fetchResponseHandler"
        /\ promises[promisables[t[2]].promise].state = "fulfilled"
        /\ promises[promisables[t[2]].promise].value = "obj"
        /\ promises[promisables[t[3]].promise].calls = <<"obj">>
        /\ promises[promisables[t[3]].promise].state = "fulfilled"
        /\ promises[promisables[t[3]].promise].value = "obj"

\* ------------------------------------------------------ unhandled rejections
\* d was derived, directly or not, from promise a
RECURSIVE Descends(_, _)
Descends(a, d) ==
    /\ d > a
    /\ promises[d].parent = a \/ Descends(a, promises[d].parent)

\* promise i has had no reaction registered: nothing was derived from it and
\* nobody subscribed to a Promisable that wraps it
Unchained(i) ==
    /\ \A d \in Promises : promises[d].parent # i
    /\ \A o \in Observers : promisables[observers[o].promisable].promise # i

\* The causes the host reports as unhandled rejections once the microtask
\* queue is empty: those of rejected promises without a reaction, among them
\* the promises subscribe made with _promise.then.
UnhandledRejections ==
    {promises[i].value :
        i \in {d \in Promises : promises[d].state = "rejected" /\ Unchained(d)}}
    \cup
    {observers[o].unhandled :
        o \in {x \in Observers : observers[x].unhandled # "none"}}

\* C20: when a Promisable has failed and no catch$ link handles the failure
\* (only then$ links and finally$ links that return follow it), the host
\* gets the cause as an unhandled rejection once the microtasks have run;
\* every observer of the failed Promisable has been invoked with the
\* placeholder and with nothing else.
C20_UnhandledRejection ==
    \A f \in Promisables :
        LET i == promisables[f].promise
        IN  promises[i].state = "rejected" =>
               /\ \A o \in ObserversOf(f) :
                     observers[o].log = <<promisables[f].initialValue>>
               /\ /\ jobs = <<>>
                  /\ \A k \in 1..Len(reads) : reads[k].done
                  /\ \A d \in Promises : Descends(i, d) => Carries(i, d)
                  => promises[i].value \in UnhandledRejections

\* fetch failed, the then$ link derived from it failed with the same cause,
\* and an observer of that link, subscribed before, still has the
\* placeholder only: the host has the cause as an unhandled rejection.
C20_Witness ==
    \E f \in Promisables, o \in Observers :
        /\ origin[f].by = "then"
        /\ promises[promisables[f].promise].state = "rejected"
        /\ promises[promisables[f].promise].value = "TypeError"
        /\ observers[o].promisable = f
        /\ observers[o].atSubscribe = "pending"
        /\ observers[o].log = <<"undefined">>
        /\ observers[o].unhandled = "TypeError"
        /\ jobs = <<>>
        /\ "TypeError" \in UnhandledRejections

\* ----------------------------------------------------------- no cancellation
IsPrefix(s, t) == Len(s) <= Len(t) /\ \A k \in 1..Len(s) : s[k] = t[k]

\* A step of the caller on what exists: a Promisable is derived, an observer
\* subscribes, or an observer unsubscribes.
CallerStep ==
    \/ Len(promisables') > Len(promisables)
    \/ Len(observers') > Len(observers)
    \/ \E o \in Observers : observers[o].subscribed /\ ~observers'[o].subscribed

\* No promise changes its outcome, no callback that waits on a promise or in
\* the microtask queue is dropped.
NothingAborted ==
    /\ IsPrefix(jobs, jobs')
    /\ \A i \in Promises :
          /\ promises'[i].state = promises[i].state
          /\ promises'[i].value = promises[i].value
          /\ IsPrefix(promises[i].reactions, promises'[i].reactions)

HandedSettledValue ==
    \A o \in Observers :
        observers[o].subscribed /\ Delivered(o) =>
            LastSeen(o) = PromiseOf(o).value

\* C21: chaining, subscribing and unsubscribing abort nothing: they change
\* the outcome of no promise and drop no callback, so the operation settles
\* as the network decides; and every observer that is subscribed, whenever it
\* subscribed and whoever unsubscribed before, has the settled value as the
\* last value it was handed once its callback has run.
C21_NoCancellation ==
    [][/\ HandedSettledValue'
       /\ CallerStep => NothingAborted]_vars

\* The only observer of a Promisable unsubscribed before settlement; the
\* operation succeeded, and an observer that subscribed afterwards to a
\* Promisable derived from it was handed the settled value.
C21_Witness ==
    \E o \in Observers, q \in Observers :
        /\ observers[o].atUnsubscribe = "pending"
        /\ observers[o].log = <<"undefined">>
        /\ PromiseOf(o).state = "fulfilled"
        /\ origin[observers[q].promisable].from = observers[o].promisable
        /\ observers[q].atSubscribe = "fulfilled"
        /\ observers[q].subscribed
        /\ Delivered(q)
        /\ LastSeen(q) = PromiseOf(q).value

\* ------------------------------------------------------- order of delivery
\* Observers o and q subscribed to the same Promisable while its promise was
\* pending, o before q (observers are numbered in the order of subscribe).
SubscribedInOrder(o, q) ==
    /\ o < q
    /\ observers[o].promisable = observers[q].promisable
    /\ observers[o].atSubscribe = "pending"
    /\ observers[q].atSubscribe = "pending"

\* The observers whose subscriber has been run since the previous state.
Handed == {o \in Observers : Len(observers'[o].log) > Len(observers[o].log)}

FirstSubscribedFirstRun ==
    \A o \in Observers, q \in Observers :
        SubscribedInOrder(o, q) =>
            /\ ~Waiting(q) => ~Waiting(o)
            /\ Early(o) /\ Len(observers[q].log) > 1 =>
                   observers[o].log = observers[q].log

\* C22: of two observers that subscribed to the same Promisable before it
\* settled, the callback of the one that subscribed first runs first,
\* whichever of the observers have unsubscribed in between: when the later
\* one has been handed the settled value, the earlier one, if it is still
\* subscribed, has been handed it too; and no step hands a value to more
\* than one observer.
C22_SubscriptionOrder ==
    [][/\ FirstSubscribedFirstRun'
       /\ Cardinality(Handed) <= 1]_vars

\* Two observers subscribed to one pending Promisable; the operation
\* succeeded, the first has been handed the value and the second has not yet.
C22_Witness ==
    \E o \in Observers, q \in Observers :
        /\ SubscribedInOrder(o, q)
        /\ Early(o) /\ Early(q)
        /\ PromiseOf(o).state = "fulfilled"
        /\ observers[o].log = <<PlaceholderOf(o), PromiseOf(o).value>>
        /\ observers[q].log = <<PlaceholderOf(q)>>
        /\ Waiting(q)

\* ------------------------------------------- Promisable and Promise variants
\* The outcome of promise.then(h) for a promise with outcome (state, value).
ThenOutcome(h, state, value) ==
    [state |-> ThenReaction(h, state, value).state,
     value |-> ThenReaction(h, state, value).value]

\* The outcome of the promise the function without the $ returns,
\* fetch(...).then(fetchResponseHandler) and, for Json,
\* .then(jsonUnwrapper), when fetch has the outcome (state, value).
PromiseOutcome(json, state, value) ==
    LET classified == ThenOutcome("fetchResponseHandler", state, value)
    IN  IF json
        THEN ThenOutcome("jsonUnwrapper", classified.state, classified.value)
        ELSE classified

\* The two arguments the function without the $ gives to fetch.
PromiseRequest(asked, cs) ==
    LET given == IF asked.client = 0
                 THEN asked.init
                 ELSE Spread(cs[asked.client].init, asked.init)
        own == IF asked.verb \in WithBody
               THEN [method |-> MethodOf(asked.verb),
                     body |-> JSONstringify(OrNull(asked.body))]
               ELSE [method |-> MethodOf(asked.verb)]
    IN  [input |-> IF asked.client = 0
                   THEN asked.endpoint
                   ELSE URL(asked.endpoint, cs[asked.client].baseUrl),
         init |-> Spread(given, own)]

VerbRequests == {k \in Requests : requests[k].asked.verb \in Verbs}

\* C23: whether the function called has the $ or not, the request issued
\* and the outcome are those of the function without the $: fetch is given
\* the same two arguments, and once fetch has answered or failed, the
\* promise of the Promisable returned (with the $) or the promise returned
\* (without) settles with the outcome of
\* fetch(...).then(fetchResponseHandler)[.then(jsonUnwrapper)] for that
\* answer: the same value on success, the same cause on failure.
C23_SameAsPromiseVariant ==
    \A k \in VerbRequests :
        LET asked == requests[k].asked
            root == promises[RootOf(k)]
            result == promises[ResultOf(k)]
            sent == PromiseRequest(asked, requests[k].clients)
        IN  /\ requests[k].input = sent.input
            /\ requests[k].init = sent.init
            /\ fetchCalls = 1
            /\ asked.dollar =>
                  promisables[Len(promisables)].promise = ResultOf(k)
            /\ ~asked.dollar => promisables = <<>>
            /\ Settled(result) =>
                  /\ result.state =
                        PromiseOutcome(asked.json, root.state, root.value).state
                  /\ result.value =
                        PromiseOutcome(asked.json, root.state, root.value).value

\* postJson$ was answered with an ok response and the promise of its
\* Promisable has the decoded body.
C23_Witness ==
    \E k \in VerbRequests :
        /\ requests[k].asked.verb = "post"
        /\ requests[k].asked.json
        /\ requests[k].asked.dollar
        /\ promises[RootOf(k)].value = "obj"
        /\ promises[promisables[Len(promisables)].promise].state = "fulfilled"
        /\ promises[promisables[Len(promisables)].promise].value = "Array(1)"

\* ------------------------------------------------------------ eager handlers
\* The handler of a link of the given kind is due for a receiver that
\* settled in the given state.
Due(kind, state) ==
    CASE kind = "then" -> state = "fulfilled"
      [] kind = "catch" -> state = "rejected"
      [] kind = "finally" -> state \in {"fulfilled", "rejected"}
      [] OTHER -> FALSE

DerivedLinks == Links("then") \cup Links("catch") \cup Links("finally")

\* A step in which an observer subscribes or unsubscribes.
ObserverStep ==
    \/ Len(observers') > Len(observers)
    \/ \E o \in Observers : observers[o].subscribed /\ ~observers'[o].subscribed

RunOnceWhenDue ==
    \A d \in DerivedLinks :
        /\ Len(promises[d].calls) <= 1
        /\ Settled(promises[d]) =>
              (Len(promises[d].calls) = 1
                  <=> Due(promises[d].kind, ParentOf(d).state))
        /\ promises[d].calls # <<>> =>
              promises[d].calls = <<ParentOf(d).value>>
                  \/ promises[d].kind = "finally"

\* C24: the handler of a then$ / catch$ / finally$ link is never run more
\* than once; once the link has settled it has run exactly once when it
\* was due and not at all when it was not, however many observers the
\* derived Promisable has or had; and a step in which an observer
\* subscribes or unsubscribes runs no handler and drops no reaction that
\* waits to run one.
C24_EagerOncePerLink ==
    [][/\ RunOnceWhenDue'
       /\ ObserverStep =>
             /\ \A i \in Promises : promises'[i].calls = promises[i].calls
             /\ NothingAborted]_vars

\* The handler of a link ran once while the derived Promisable had no
\* observer; two observers subscribed afterwards, one of them unsubscribed,
\* and the handler has still run once.
C24_Witness ==
    \E d \in DerivedLinks :
        /\ Len(promises[d].calls) = 1
        /\ Len(observers) = 2
        /\ \A o \in Observers :
              /\ promises[promisables[observers[o].promisable].promise]
                    = promises[d]
              /\ observers[o].atSubscribe # "pending"
        /\ \E o \in Observers : ~observers[o].subscribed
        /\ \E o \in Observers : observers[o].subscribed

\* ------------------------------------------------------ inherited placeholder
\* The startWith$ calls on the way from fetch$ to Promisable f, oldest first.
RECURSIVE StartsBefore(_)
StartsBefore(f) ==
    CASE origin[f].by = "fetch" -> <<>>
      [] origin[f].by = "startWith" ->
            Append(StartsBefore(origin[f].from), origin[f].arg)
      [] OTHER -> StartsBefore(origin[f].from)

MostRecentStart(f) ==
    IF StartsBefore(f) = <<>>
    THEN "undefined"
    ELSE StartsBefore(f)[Len(StartsBefore(f))]

\* C25: a Promisable made by then$, catch$ or finally$ has the placeholder
\* of its receiver; so the placeholder of every Promisable is the argument
\* of the most recent startWith$ on the way to it from fetch$, undefined
\* when there is none, and that is the one value an observer has been
\* handed while the observed promise has not succeeded.
C25_PlaceholderInherited ==
    \A f \in Promisables :
        /\ origin[f].by \in {"then", "catch", "finally"} =>
              promisables[f].initialValue =
                  promisables[origin[f].from].initialValue
        /\ promisables[f].initialValue = MostRecentStart(f)
        /\ \A o \in ObserversOf(f) :
              /\ observers[o].log[1] = MostRecentStart(f)
              /\ PromiseOf(o).state # "fulfilled" =>
                    observers[o].log = <<MostRecentStart(f)>>

\* startWith$ was called twice with different values and a link derived
\* after both is observed while pending: the observer has the second value.
C25_Witness ==
    \E f \in Promisables, o \in Observers :
        /\ observers[o].promisable = f
        /\ origin[f].by \in {"then", "catch", "finally"}
        /\ Len(StartsBefore(f)) = 2
        /\ StartsBefore(f)[1] # StartsBefore(f)[2]
        /\ PromiseOf(o).state = "pending"
        /\ observers[o].log = <<StartsBefore(f)[2]>>

\* --------------------------------------------------------- one read per body
\* The reads of the body of response r the handler of promise t has started.
ReadsBy(t, r) ==
    {n \in Reads_ : reads[n].target = t /\ reads[n].response = r}

\* C26: the body of the response to a verb is read at most once and no read
\* finds it already used; a response that is not ok is read by the
\* classifier only, as JSON when the content type says JSON and as text
\* otherwise, exactly once by the time its promise settles; an ok response
\* is read by the JSON decoder only, as JSON, exactly once by the time the
\* returned promise settles, and is not read at all by a raw variant.
C26_BodyReadOnce ==
    \A k \in VerbRequests :
        LET root == promises[RootOf(k)]
            r == root.value
            c == ClassifiedOf(k)
            d == ResultOf(k)
            json == requests[k].asked.json
        IN  /\ Len(reads) <= 1
            /\ root.state # "fulfilled" => reads = <<>>
            /\ \A n \in Reads_ :
                  /\ reads[n].response = r
                  /\ reads[n].value # "TypeError(body used)"
                  /\ reads[n].target # 0
            /\ root.state = "fulfilled" /\ ~ResponseOk(r) =>
                  /\ Reads_ = ReadsBy(c, r)
                  /\ \A n \in Reads_ :
                        reads[n].how = IF IncludesJson(ContentType(r))
                                       THEN "json" ELSE "text"
                  /\ Settled(promises[c]) => Len(reads) = 1
            /\ root.state = "fulfilled" /\ ResponseOk(r) =>
                  IF json
                  THEN /\ Reads_ = ReadsBy(d, r)
                       /\ \A n \in Reads_ : reads[n].how = "json"
                       /\ Settled(promises[d]) => Len(reads) = 1
                  ELSE reads = <<>>

\* getJson$ was answered 404 with a JSON body: the classifier read it as
\* JSON, the request failed, and the decoder read nothing.
C26_Witness ==
    \E k \in VerbRequests :
        /\ requests[k].asked.json
        /\ promises[RootOf(k)].value = "r404json"
        /\ promises[ResultOf(k)].state = "rejected"
        /\ Len(reads) = 1
        /\ reads[1].target = ClassifiedOf(k)
        /\ reads[1].how = "json"
        /\ reads[1].done
=============================================================================
